---- MODULE Spec2Model ----
(***************************************************************************)
(* A model of the WeChat new-year greeting helper (main.py and             *)
(* src/wechat_helper.py): the hotkey message loop, the per-trigger worker  *)
(* threads with their non-blocking lock, contact recognition with its      *)
(* cache, reply generation, and the clipboard paste of send_message.       *)
(*                                                                         *)
(* Python strings are sequences of one-character tokens.  SANY reads only  *)
(* ASCII, so a CJK ideograph (U+4E00..U+9FFF) is written as its pinyin     *)
(* token: "wang" is U+738B, "wei" is U+5FAE, and so on.  Latin letters and *)
(* the space are themselves.                                               *)
(***************************************************************************)
EXTENDS Integers, Sequences, FiniteSets, TLC

VARIABLES
    mainPc,                 \* main(): "init", "running", "returned",
                            \* "exited" (load_config), "stopped"
    wechat_hwnd,            \* WeChatHelper.wechat_hwnd (0 is None)
    current_contact_name,   \* WeChatHelper.current_contact_name
    hotkey_lock,            \* threading.Lock of main(): TRUE when held
    clipboard,              \* the OS clipboard text
    msgQueue,               \* WM_HOTKEY messages posted to the loop's thread
    loopPc,                 \* run_hotkey_loop: "off", "register", "getmsg",
                            \* "callback", "ended", "killed"
    loopMsg,                \* msg.wParam of the message being dispatched
    id_to_hotkey,           \* run_hotkey_loop: the registered combos, by id
    nSpawned,               \* worker threads started by on_hotkey so far
    workers,                \* the worker threads: one record per trigger
    raw,                    \* input of the name parsers (name-parser checks)
    parsed,                 \* their results
    registered,             \* ids user32 holds registered (RegisterHotKey)
    exitCode,               \* the process's exit status; -1 while it runs
    gen,                    \* generate_reply's arguments and result
    ext                     \* the OCR lines of a recognition and its result

vars == <<mainPc, wechat_hwnd, current_contact_name, hotkey_lock, clipboard,
          msgQueue, loopPc, loopMsg, id_to_hotkey, nSpawned, workers,
          raw, parsed, registered, exitCode, gen, ext>>

---------------------------------------------------------------------------
(* Bounds *)

\* Hotkey presses (triggers) of one run.
MaxTriggers == 2
\* Longest raw name given to the parsers.
MaxLen == 3
\* Most pieces a reply template, or a recognised line, is made of.
MaxPieces == 3

---------------------------------------------------------------------------
(* Strings *)

\* Python's None where a str is expected.
NoneStr == <<"<None>">>

\* The ideographs the model uses (all inside U+4E00..U+9FFF).
CJK == {"wang", "fang", "li", "lei", "wei", "xin", "liao", "tian",
        "tong", "xun", "lu", "sou", "suo", "wen", "jian", "chuan", "shu",
        "zhu", "shou"}

\* U+4E00 <= c <= U+9FFF
IsCJK(c) == c \in CJK

\* str.strip() and str.split() treat these as whitespace.
IsSpace(c) == c = " "

\* any(U+4E00 <= c <= U+9FFF for c in s)
HasCJK(s) == \E i \in 1..Len(s) : IsCJK(s[i])

\* Python truthiness of an Optional[str]: neither None nor "".
Truthy(s) == s # NoneStr /\ s # <<>>

RECURSIVE LStrip(_)
LStrip(s) ==
    IF s # <<>> /\ IsSpace(Head(s)) THEN LStrip(Tail(s)) ELSE s

RECURSIVE RStrip(_)
RStrip(s) ==
    IF s # <<>> /\ IsSpace(s[Len(s)]) THEN RStrip(SubSeq(s, 1, Len(s) - 1)) ELSE s

\* str.strip()
Strip(s) == RStrip(LStrip(s))

\* str.split(): the maximal runs of non-whitespace, scanning left to right;
\* cur is the token being read.
RECURSIVE SplitFrom(_, _)
SplitFrom(s, cur) ==
    IF s = <<>> THEN (IF cur = <<>> THEN <<>> ELSE <<cur>>)
    ELSE IF IsSpace(Head(s))
         THEN (IF cur = <<>> THEN <<>> ELSE <<cur>>) \o SplitFrom(Tail(s), <<>>)
         ELSE SplitFrom(Tail(s), Append(cur, Head(s)))

Split(s) == SplitFrom(s, <<>>)

\* " ".join(parts)
RECURSIVE Join(_)
Join(parts) ==
    IF parts = <<>> THEN <<>>
    ELSE IF Len(parts) = 1 THEN parts[1]
    ELSE parts[1] \o <<" ">> \o Join(Tail(parts))

\* str.replace(pat, rep): every non-overlapping occurrence, left to right.
RECURSIVE Replace(_, _, _)
Replace(s, pat, rep) ==
    IF Len(s) < Len(pat) THEN s
    ELSE IF SubSeq(s, 1, Len(pat)) = pat
         THEN rep \o Replace(SubSeq(s, Len(pat) + 1, Len(s)), pat, rep)
         ELSE <<Head(s)>> \o Replace(Tail(s), pat, rep)

---------------------------------------------------------------------------
(* Name parsing *)

\* dataclass ContactInfo
ContactInfo(full, sur, given) ==
    [full_name |-> full, surname |-> sur, given_name |-> given]

\* None where a ContactInfo is expected.
NoContact == ContactInfo(NoneStr, NoneStr, NoneStr)

\* s[0]: IndexError on the empty string.
IndexError == <<"<IndexError>">>
Index0(s) == IF s = <<>> THEN IndexError ELSE <<s[1]>>

\* main.parse_name: the pair (surname, given_name).
parse_name(full_name) ==
    IF ~Truthy(full_name) THEN <<<<>>, <<>>>>
    ELSE LET s == Strip(full_name)
             parts == Split(s)
         IN  IF HasCJK(s)
             THEN (IF Len(s) >= 2 THEN <<Index0(s), SubSeq(s, 2, Len(s))>>
                   ELSE <<s, <<>>>>)
             ELSE IF Len(parts) >= 2
                  THEN <<parts[Len(parts)], Join(SubSeq(parts, 1, Len(parts) - 1))>>
                  ELSE IF Len(parts) = 1 THEN <<parts[1], <<>>>>
                  ELSE <<<<>>, <<>>>>

\* A slip in the Western branch: the first token taken as the surname.
_parse_name_first_token(full_name) ==
    LET s == Strip(full_name)
        parts == Split(s)
    IN  IF HasCJK(s)
        THEN (IF Len(s) >= 2 THEN ContactInfo(s, Index0(s), SubSeq(s, 2, Len(s)))
              ELSE ContactInfo(s, s, <<>>))
        ELSE IF Len(parts) >= 2
             THEN ContactInfo(s, parts[1], Join(Tail(parts)))
             ELSE ContactInfo(s, s, <<>>)

\* WeChatHelper._parse_name
_parse_name(full_name) ==
    LET s == Strip(full_name)
        parts == Split(s)
    IN  IF HasCJK(s)
        THEN (IF Len(s) >= 2 THEN ContactInfo(s, Index0(s), SubSeq(s, 2, Len(s)))
              ELSE ContactInfo(s, s, <<>>))
        ELSE IF Len(parts) >= 2
             THEN ContactInfo(s, parts[Len(parts)], Join(SubSeq(parts, 1, Len(parts) - 1)))
             ELSE ContactInfo(s, s, <<>>)

---------------------------------------------------------------------------
(* Name extraction from recognised text *)

\* The UI strings _extract_chinese_name refuses, in the order of the source:
\* wei xin (WeChat), liao tian (chat), tong xun lu (contacts), sou suo
\* (search), wen jian chuan shu zhu shou (file transfer assistant).
Denylist == {<<"wei", "xin">>, <<"liao", "tian">>, <<"tong", "xun", "lu">>,
             <<"sou", "suo">>,
             <<"wen", "jian", "chuan", "shu", "zhu", "shou">>}

\* re.findall(r'[U+4E00-U+9FFF]+', s): the maximal ideograph runs, in order.
RECURSIVE RunsFrom(_, _)
RunsFrom(s, cur) ==
    IF s = <<>> THEN (IF cur = <<>> THEN <<>> ELSE <<cur>>)
    ELSE IF IsCJK(Head(s))
         THEN RunsFrom(Tail(s), Append(cur, Head(s)))
         ELSE (IF cur = <<>> THEN <<>> ELSE <<cur>>) \o RunsFrom(Tail(s), <<>>)

\* The loop without its test against the refused UI strings.
RECURSIVE FirstAcceptedAnyText(_)
FirstAcceptedAnyText(runs) ==
    IF runs = <<>> THEN NoneStr
    ELSE IF 2 <= Len(Head(runs)) /\ Len(Head(runs)) <= 8
         THEN Head(runs)
         ELSE FirstAcceptedAnyText(Tail(runs))

\* The first run the loop of _extract_chinese_name accepts, or None.
RECURSIVE FirstAccepted(_)
FirstAccepted(runs) ==
    IF runs = <<>> THEN NoneStr
    ELSE IF 2 <= Len(Head(runs)) /\ Len(Head(runs)) <= 8 /\ Head(runs) \notin Denylist
         THEN Head(runs)
         ELSE FirstAccepted(Tail(runs))

\* WeChatHelper._extract_chinese_name
_extract_chinese_name(text) ==
    FirstAccepted(RunsFrom(Replace(text, <<" ">>, <<>>), <<>>))

\* Only the first result line is looked at.
FirstLineOnly(lines) ==
    IF lines = <<>> THEN NoneStr ELSE _extract_chinese_name(Head(lines))

\* The loop of _try_rapidocr over the result lines: the first line that
\* yields a name decides.
RECURSIVE FirstNameOfLines(_)
FirstNameOfLines(lines) ==
    IF lines = <<>> THEN NoneStr
    ELSE IF Truthy(_extract_chinese_name(Head(lines)))
         THEN _extract_chinese_name(Head(lines))
         ELSE FirstNameOfLines(Tail(lines))

---------------------------------------------------------------------------
(* Reply generation *)

PH_name == <<"{", "n", "a", "m", "e", "}">>
PH_surname == <<"{", "s", "u", "r", "n", "a", "m", "e", "}">>
PH_given_name == <<"{", "g", "i", "v", "e", "n", "_", "n", "a", "m", "e", "}">>

\* A YAML scalar in a replies list that is not a str (an int, say): it has
\* no replace method.
NotAStr == <<"<int>">>

\* The substitution of generate_reply for one drawn template.
Substitute(template, contact_info) ==
    IF contact_info # NoContact
    THEN Replace(Replace(Replace(template, PH_name, contact_info.full_name),
                         PH_surname, contact_info.surname),
                 PH_given_name, contact_info.given_name)
    ELSE Replace(Replace(Replace(template, PH_name, <<>>), PH_surname, <<>>),
                 PH_given_name, <<>>)

---------------------------------------------------------------------------
(* Configuration and environment *)

\* The keys of config["hotkeys"], in file order.
HotkeyOrder == <<"alt+1", "alt+2">>

\* config["hotkeys"]: the first binding has a template made of the surname
\* and given-name placeholders and a scalar that is not a str; the second
\* has an empty replies list.
Config(hotkey) ==
    IF hotkey = "alt+1"
    THEN [name |-> "greeting",
          replies |-> <<PH_surname \o PH_given_name, NotAStr>>]
    ELSE [name |-> "silent", replies |-> <<>>]

\* hk_id = len(id_to_hotkey) + 100
HK_ID_BASE == 100

\* What the first recogniser may return: no line, only a refused UI string,
\* or a refused line followed by a name read with a gap in it.
RapidResults == { <<>>,
                  << <<"wei", "xin">> >>,
                  << <<"wei", "xin">>, <<"wang", " ", "fang">> >> }

\* What the second recogniser may read (before its strip()).
TesseractTexts == { <<>>, <<"sou", "suo">>, <<" ", "a", "wang", "fang", " ">> }

\* Lines typed at the manual-entry prompt.
ManualLines == { <<>>, <<" ">>, <<" ", "J", " ", "S">> }

\* Clipboard contents before the program touches it.
InitialClipboards == { <<"o", "l", "d">> }

---------------------------------------------------------------------------
(* State *)

Workers == 1..MaxTriggers

\* A thread not yet started, and the locals of a thread that ended.
FreshWorker ==
    [pc |-> "unborn",          \* position in _handle_hotkey and its callees
     hotkey |-> "",            \* the argument of _handle_hotkey
     recog |-> "none",         \* how get_current_contact ended
     failed |-> {},            \* recognition steps that raised
     ran |-> <<>>,             \* the providers get_current_contact called,
                               \* with what each gave, until generate_reply
     sfailed |-> {},           \* steps of send_message that raised
     contact |-> NoContact,    \* contact_info
     reply |-> NoneStr,        \* reply
     old_clipboard |-> <<>>,   \* send_message's old_clipboard
     clipAtCall |-> NoneStr,   \* the clipboard when send_message was called
     keys |-> 0,               \* key events send_message has emitted
     sres |-> "none",          \* how send_message ended
     sends |-> 0,              \* calls of send_message
     sent |-> NoneStr,         \* the text of the call
     busyAtAcquire |-> FALSE,  \* the lock was held at the acquire
     inFlight |-> {},          \* workers inside the pipeline at the start
     outcome |-> "none"]       \* "dropped", "returned", "excepted"

\* The positions between a successful acquire and the release.
PipelinePcs == {"lookup", "capture", "rapidocr", "tesseract", "fallback",
                "readcache", "generate", "s_read", "s_write", "s_keys",
                "s_restore", "except", "finally"}

InPipeline(i) == workers[i].pc \in PipelinePcs

\* Hotkey presses so far: dispatched, being dispatched, or still queued.
nPressed == nSpawned + Len(msgQueue) + (IF loopPc = "callback" THEN 1 ELSE 0)

\* Neither parser called yet.
NotParsed == [called |-> {}, main |-> <<<<>>, <<>>>>,
              helper |-> ContactInfo(<<>>, <<>>, <<>>)]

\* The program after WeChatHelper() is constructed, before init_wechat.
ProgramInit ==
    /\ mainPc = "init"
    /\ wechat_hwnd = 0
    /\ current_contact_name = NoneStr
    /\ hotkey_lock = FALSE
    /\ clipboard \in InitialClipboards
    /\ msgQueue = <<>>
    /\ loopPc = "off"
    /\ loopMsg = 0
    /\ id_to_hotkey = <<>>
    /\ nSpawned = 0
    /\ workers = [i \in Workers |-> FreshWorker]
    /\ registered = {}
    /\ exitCode = -1

\* generate_reply not called yet.
NotGenerated ==
    [replies |-> <<>>, contact_info |-> NoContact, called |-> FALSE,
     result |-> NoneStr]

\* No recognition made yet on its own.
NotExtracted ==
    [lines |-> <<>>, called |-> FALSE, name |-> NoneStr, cache |-> NoneStr]

Init ==
    /\ ProgramInit
    /\ raw = <<>>
    /\ parsed = NotParsed
    /\ gen = NotGenerated
    /\ ext = NotExtracted

---------------------------------------------------------------------------
(* Startup, the message loop, manual entry *)

\* main() up to keyboard.wait(): load_config ends the process with
\* sys.exit(1) when config.yaml is missing; init_wechat finds the window or
\* not, and when it does not main prints and returns, which ends the
\* process with status 0; otherwise the hotkey thread is started.
StartProgram ==
    /\ mainPc = "init"
    /\ \E config_exists \in BOOLEAN, found \in BOOLEAN :
         IF ~config_exists
         THEN /\ mainPc' = "exited"
              /\ exitCode' = 1
              /\ UNCHANGED <<wechat_hwnd, loopPc>>
         ELSE IF found
         THEN /\ wechat_hwnd' = 1
              /\ mainPc' = "running"
              /\ loopPc' = "register"
              /\ UNCHANGED exitCode
         ELSE /\ mainPc' = "returned"
              /\ exitCode' = 0
              /\ UNCHANGED <<wechat_hwnd, loopPc>>
    /\ UNCHANGED <<current_contact_name, hotkey_lock, clipboard, msgQueue,
                   loopMsg, id_to_hotkey, nSpawned, workers, raw, parsed,
                   registered, gen, ext>>

\* The registration loop of run_hotkey_loop: RegisterHotKey succeeds for
\* the combos in ok and fails for the others, which are skipped.
RegisterHotkeys ==
    /\ loopPc = "register"
    /\ \E ok \in SUBSET {HotkeyOrder[k] : k \in 1..Len(HotkeyOrder)} :
         /\ id_to_hotkey' = SelectSeq(HotkeyOrder, LAMBDA h : h \in ok)
         /\ registered' = {HK_ID_BASE + k - 1 : k \in 1..Cardinality(ok)}
    /\ loopPc' = "getmsg"
    /\ UNCHANGED <<mainPc, wechat_hwnd, current_contact_name, hotkey_lock,
                   clipboard, msgQueue, loopMsg, nSpawned, workers, raw, parsed,
                   exitCode, gen, ext>>

\* The user presses a registered combo: Windows posts WM_HOTKEY with its id.
PressHotkey ==
    /\ loopPc \in {"getmsg", "callback"}
    /\ nPressed < MaxTriggers
    /\ \E hk_id \in registered :
         msgQueue' = Append(msgQueue, hk_id)
    /\ UNCHANGED <<mainPc, wechat_hwnd, current_contact_name, hotkey_lock,
                   clipboard, loopPc, loopMsg, id_to_hotkey, nSpawned, workers,
                   raw, parsed, registered, exitCode, gen, ext>>

\* GetMessageW returns the next WM_HOTKEY; hk_id in id_to_hotkey.
GetMessage ==
    /\ loopPc = "getmsg"
    /\ msgQueue # <<>>
    /\ loopMsg' = Head(msgQueue)
    /\ msgQueue' = Tail(msgQueue)
    /\ loopPc' = IF Head(msgQueue) - HK_ID_BASE + 1 \in 1..Len(id_to_hotkey)
                 THEN "callback" ELSE "getmsg"
    /\ UNCHANGED <<mainPc, wechat_hwnd, current_contact_name, hotkey_lock,
                   clipboard, id_to_hotkey, nSpawned, workers, raw, parsed, registered, exitCode, gen, ext>>

\* The callback started and then joined its thread: the loop would go on
\* only with no handling in flight.
OnHotkeyJoins ==
    /\ loopPc = "callback"
    /\ \A i \in Workers : workers[i].pc \in {"unborn", "done"}
    /\ nSpawned' = nSpawned + 1
    /\ workers' = [workers EXCEPT ![nSpawned + 1] =
                     [FreshWorker EXCEPT
                        !.pc = "start",
                        !.hotkey = id_to_hotkey[loopMsg - HK_ID_BASE + 1]]]
    /\ loopPc' = "getmsg"
    /\ UNCHANGED <<mainPc, wechat_hwnd, current_contact_name, hotkey_lock,
                   clipboard, msgQueue, loopMsg, id_to_hotkey, raw, parsed, registered, exitCode, gen, ext>>

\* on_hotkey and the rest of the loop body: a daemon thread is started for
\* _handle_hotkey(id_to_hotkey[hk_id]) and the loop goes back to GetMessageW.
OnHotkey ==
    /\ loopPc = "callback"
    /\ nSpawned' = nSpawned + 1
    /\ workers' = [workers EXCEPT ![nSpawned + 1] =
                     [FreshWorker EXCEPT
                        !.pc = "start",
                        !.hotkey = id_to_hotkey[loopMsg - HK_ID_BASE + 1],
                        !.inFlight = {j \in Workers : InPipeline(j)}]]
    /\ loopPc' = "getmsg"
    /\ UNCHANGED <<mainPc, wechat_hwnd, current_contact_name, hotkey_lock,
                   clipboard, msgQueue, loopMsg, id_to_hotkey, raw, parsed, registered, exitCode, gen, ext>>

\* set_contact_name called for every line: a blank line gives None and
\* clears the cache.
ManualEntryLineClears(line) ==
    /\ mainPc = "running"
    /\ current_contact_name' =
           IF Strip(line) # <<>> THEN Strip(Strip(line)) ELSE NoneStr
    /\ UNCHANGED <<mainPc, wechat_hwnd, hotkey_lock, clipboard, msgQueue, loopPc,
                   loopMsg, id_to_hotkey, nSpawned, workers, raw, parsed,
                   registered, exitCode, gen, ext>>

\* The manual entry made under hotkey_lock: it goes on only with the lock
\* free.
ManualEntryLineLocked(line) ==
    /\ mainPc = "running"
    /\ ~hotkey_lock
    /\ current_contact_name' =
           IF Strip(line) # <<>> THEN Strip(Strip(line)) ELSE current_contact_name
    /\ UNCHANGED <<mainPc, wechat_hwnd, hotkey_lock, clipboard, msgQueue, loopPc,
                   loopMsg, id_to_hotkey, nSpawned, workers, raw, parsed,
                   registered, exitCode, gen, ext>>

\* Ctrl+Alt+N: input_contact_name reads the line and, when it is not
\* blank, set_contact_name stores it.
ManualEntryLine(line) ==
    /\ mainPc = "running"
    /\ current_contact_name' =
           IF Strip(line) # <<>> THEN Strip(Strip(line)) ELSE current_contact_name
    /\ UNCHANGED <<mainPc, wechat_hwnd, hotkey_lock, clipboard, msgQueue, loopPc,
                   loopMsg, id_to_hotkey, nSpawned, workers, raw, parsed,
                   registered, exitCode, gen, ext>>

ManualEntry == \E line \in ManualLines : ManualEntryLine(line)

\* GetMessageW returns 0 (WM_QUIT) or -1 (an error): the loop breaks, every
\* id of id_to_hotkey is unregistered and the hotkey thread ends, its
\* message queue with it.
LoopQuit ==
    /\ loopPc = "getmsg"
    /\ registered' = registered \ {HK_ID_BASE + k - 1 : k \in 1..Len(id_to_hotkey)}
    /\ loopPc' = "ended"
    /\ msgQueue' = <<>>
    /\ UNCHANGED <<mainPc, wechat_hwnd, current_contact_name, hotkey_lock,
                   clipboard, loopMsg, id_to_hotkey, nSpawned, workers, raw,
                   parsed, exitCode, gen, ext>>

\* sys.exit(0) reaches the top of the main thread: the process ends with
\* status 0.  The hotkey thread and the workers are daemon threads and end
\* where they are; the lock and the thread's message queue go with the
\* process.  No call of UnregisterHotKey is made on this path.
ProcessStops ==
    /\ mainPc' = "stopped"
    /\ exitCode' = 0
    /\ loopPc' = IF loopPc = "ended" THEN "ended" ELSE "killed"
    /\ workers' = [i \in Workers |->
                     IF workers[i].pc \in {"unborn", "done"} THEN workers[i]
                     ELSE [FreshWorker EXCEPT !.pc = "killed"]]
    /\ hotkey_lock' = FALSE
    /\ msgQueue' = <<>>
    /\ loopMsg' = 0
    /\ UNCHANGED <<wechat_hwnd, current_contact_name, clipboard, id_to_hotkey,
                   nSpawned, raw, parsed, registered, gen, ext>>

\* Ctrl+C while main waits in keyboard.wait(): the KeyboardInterrupt is
\* caught and stop_program() called on the main thread.
Interrupt ==
    /\ mainPc = "running"
    /\ ProcessStops

\* Ctrl+Shift+Q: the keyboard library calls stop_program on a thread of its
\* own.  Its sys.exit(0) raises SystemExit on that thread: the process
\* stops when the library lets it end the process, and goes on when the
\* exception ends with the callback.
StopHotkey ==
    /\ mainPc = "running"
    /\ \E ends \in BOOLEAN :
         IF ends THEN ProcessStops ELSE UNCHANGED vars

---------------------------------------------------------------------------
(* The worker thread: _handle_hotkey *)

\* What is left of a worker when its thread ends.
Ended(rec, outcome) ==
    [FreshWorker EXCEPT !.pc = "done", !.outcome = outcome,
                        !.busyAtAcquire = rec.busyAtAcquire, !.inFlight = rec.inFlight]

\* The acquire without its test: the worker enters whatever the lock says.
HandleAcquireNoTest(i) ==
    /\ workers[i].pc = "start"
    /\ hotkey_lock' = TRUE
    /\ workers' = [workers EXCEPT ![i].pc = "lookup"]
    /\ UNCHANGED <<mainPc, wechat_hwnd, current_contact_name, clipboard, msgQueue,
                   loopPc, loopMsg, id_to_hotkey, nSpawned, raw, parsed, registered, exitCode, gen, ext>>

\* acquire(blocking=True): a worker that finds the lock held waits for it.
HandleAcquireBlocking(i) ==
    /\ workers[i].pc = "start"
    /\ IF hotkey_lock
       THEN /\ workers' = [workers EXCEPT ![i].busyAtAcquire = TRUE]
            /\ UNCHANGED hotkey_lock
       ELSE /\ hotkey_lock' = TRUE
            /\ workers' = [workers EXCEPT ![i].pc = "lookup"]
    /\ UNCHANGED <<mainPc, wechat_hwnd, current_contact_name, clipboard, msgQueue,
                   loopPc, loopMsg, id_to_hotkey, nSpawned, raw, parsed, registered, exitCode, gen, ext>>

\* hotkey_lock.acquire(blocking=False); when it fails the notice is printed
\* and the thread returns.
HandleAcquire(i) ==
    /\ workers[i].pc = "start"
    /\ IF hotkey_lock
       THEN /\ workers' = [workers EXCEPT ![i] =
                             Ended([workers[i] EXCEPT !.busyAtAcquire = TRUE],
                                   "dropped")]
            /\ UNCHANGED hotkey_lock
       ELSE /\ hotkey_lock' = TRUE
            /\ workers' = [workers EXCEPT ![i].pc = "lookup"]
    /\ UNCHANGED <<mainPc, wechat_hwnd, current_contact_name, clipboard, msgQueue,
                   loopPc, loopMsg, id_to_hotkey, nSpawned, raw, parsed, registered, exitCode, gen, ext>>

\* hotkey_data = config.get("hotkeys", {}).get(hotkey); return when falsy.
HandleLookup(i) ==
    /\ workers[i].pc = "lookup"
    /\ workers' = [workers EXCEPT ![i].pc =
                     IF \E k \in 1..Len(HotkeyOrder) : HotkeyOrder[k] = workers[i].hotkey
                     THEN "capture" ELSE "finally"]
    /\ UNCHANGED <<mainPc, wechat_hwnd, current_contact_name, hotkey_lock, clipboard,
                   msgQueue, loopPc, loopMsg, id_to_hotkey, nSpawned, raw, parsed, registered, exitCode, gen, ext>>

\* get_current_contact's window test, then _ocr_contact_name up to the
\* providers: the window rectangle, the grab and the preprocessing.  A
\* raise is caught by _ocr_contact_name, which returns None.
OcrCapture(i) ==
    /\ workers[i].pc = "capture"
    /\ \E how \in {"ok", "narrow", "capture_raises", "preprocess_raises"} :
         workers' = [workers EXCEPT ![i] =
            IF wechat_hwnd = 0
            THEN [@ EXCEPT !.pc = "generate", !.recog = "unknown"]
            ELSE IF how = "ok" THEN [@ EXCEPT !.pc = "rapidocr"]
            ELSE IF how = "narrow" THEN [@ EXCEPT !.pc = "fallback"]
            ELSE [@ EXCEPT !.pc = "fallback", !.failed = @ \cup {"capture"}]]
    /\ UNCHANGED <<mainPc, wechat_hwnd, current_contact_name, hotkey_lock, clipboard,
                   msgQueue, loopPc, loopMsg, id_to_hotkey, nSpawned, raw, parsed, registered, exitCode, gen, ext>>

\* The recognised name is returned without being stored.
RecognizedNoStore(i, name) ==
    /\ current_contact_name' = current_contact_name
    /\ workers' = [workers EXCEPT
                     ![i].pc = "generate", ![i].recog = "recognized",
                     ![i].contact = _parse_name(name),
                     ![i].ran = Append(@, [provider |-> workers[i].pc,
                                           name |-> name])]

\* get_current_contact with a name from a provider: the cache is updated
\* and the parsed contact returned.
Recognized(i, name) ==
    /\ current_contact_name' = name
    /\ workers' = [workers EXCEPT
                     ![i].pc = "generate", ![i].recog = "recognized",
                     ![i].contact = _parse_name(name),
                     ![i].ran = Append(@, [provider |-> workers[i].pc,
                                           name |-> name])]

\* A raise of the first provider leaves _try_rapidocr and is caught by
\* _ocr_contact_name: the second provider is not called.
TryRapidocrUncaught(i) ==
    /\ workers[i].pc = "rapidocr"
    /\ \E raises \in BOOLEAN, result \in RapidResults :
         LET name == IF raises THEN NoneStr ELSE FirstNameOfLines(result)
         IN  IF Truthy(name)
             THEN Recognized(i, name)
             ELSE /\ workers' = [workers EXCEPT
                       ![i].pc = IF raises THEN "fallback" ELSE "tesseract",
                       ![i].failed = IF raises THEN @ \cup {"rapidocr"} ELSE @,
                       ![i].ran = Append(@, [provider |-> "rapidocr",
                                             name |-> NoneStr])]
                  /\ UNCHANGED current_contact_name
    /\ UNCHANGED <<mainPc, wechat_hwnd, hotkey_lock, clipboard, msgQueue, loopPc,
                   loopMsg, id_to_hotkey, nSpawned, raw, parsed, registered,
                   exitCode, gen, ext>>

\* _try_rapidocr: the provider raises (caught, None) or returns lines.
TryRapidocr(i) ==
    /\ workers[i].pc = "rapidocr"
    /\ \E raises \in BOOLEAN, result \in RapidResults :
         LET name == IF raises THEN NoneStr ELSE FirstNameOfLines(result)
         IN  IF Truthy(name)
             THEN Recognized(i, name)
             ELSE /\ workers' = [workers EXCEPT
                       ![i].pc = "tesseract",
                       ![i].failed = IF raises THEN @ \cup {"rapidocr"} ELSE @,
                       ![i].ran = Append(@, [provider |-> "rapidocr",
                                             name |-> NoneStr])]
                  /\ UNCHANGED current_contact_name
    /\ UNCHANGED <<mainPc, wechat_hwnd, hotkey_lock, clipboard, msgQueue, loopPc,
                   loopMsg, id_to_hotkey, nSpawned, raw, parsed, registered, exitCode, gen, ext>>

\* _try_tesseract: the provider raises (caught, None) or returns a text.
TryTesseract(i) ==
    /\ workers[i].pc = "tesseract"
    /\ \E raises \in BOOLEAN, text \in TesseractTexts :
         LET name == IF raises \/ Strip(text) = <<>> THEN NoneStr
                     ELSE _extract_chinese_name(Strip(text))
         IN  IF Truthy(name)
             THEN Recognized(i, name)
             ELSE /\ workers' = [workers EXCEPT
                       ![i].pc = "fallback",
                       ![i].failed = IF raises THEN @ \cup {"tesseract"} ELSE @,
                       ![i].ran = Append(@, [provider |-> "tesseract",
                                             name |-> NoneStr])]
                  /\ UNCHANGED current_contact_name
    /\ UNCHANGED <<mainPc, wechat_hwnd, hotkey_lock, clipboard, msgQueue, loopPc,
                   loopMsg, id_to_hotkey, nSpawned, raw, parsed, registered, exitCode, gen, ext>>

\* The fallback forgets the cache: no contact whatever was known.
GcCheckCacheIgnores(i) ==
    /\ workers[i].pc = "fallback"
    /\ workers' = [workers EXCEPT ![i].pc = "generate", ![i].recog = "unknown"]
    /\ UNCHANGED <<mainPc, wechat_hwnd, current_contact_name, hotkey_lock, clipboard,
                   msgQueue, loopPc, loopMsg, id_to_hotkey, nSpawned, raw, parsed, registered, exitCode, gen, ext>>

\* The fallback parses the cache without testing it: with no cached name
\* the error of None.strip() leaves get_current_contact.
GcCheckCacheUnguarded(i) ==
    /\ workers[i].pc = "fallback"
    /\ workers' = [workers EXCEPT ![i] =
                     IF Truthy(current_contact_name)
                     THEN [@ EXCEPT !.pc = "readcache"]
                     ELSE [@ EXCEPT !.pc = "except", !.recog = "raised"]]
    /\ UNCHANGED <<mainPc, wechat_hwnd, current_contact_name, hotkey_lock, clipboard,
                   msgQueue, loopPc, loopMsg, id_to_hotkey, nSpawned, raw, parsed, registered, exitCode, gen, ext>>

\* get_current_contact after a failed recognition: the test of the cache.
GcCheckCache(i) ==
    /\ workers[i].pc = "fallback"
    /\ workers' = [workers EXCEPT ![i] =
                     IF Truthy(current_contact_name)
                     THEN [@ EXCEPT !.pc = "readcache"]
                     ELSE [@ EXCEPT !.pc = "generate", !.recog = "unknown"]]
    /\ UNCHANGED <<mainPc, wechat_hwnd, current_contact_name, hotkey_lock, clipboard,
                   msgQueue, loopPc, loopMsg, id_to_hotkey, nSpawned, raw, parsed, registered, exitCode, gen, ext>>

\* ... and the read of the cache that is parsed and returned.
GcReadCache(i) ==
    /\ workers[i].pc = "readcache"
    /\ workers' = [workers EXCEPT ![i].pc = "generate", ![i].recog = "cached",
                                  ![i].contact = _parse_name(current_contact_name)]
    /\ UNCHANGED <<mainPc, wechat_hwnd, current_contact_name, hotkey_lock, clipboard,
                   msgQueue, loopPc, loopMsg, id_to_hotkey, nSpawned, raw, parsed, registered, exitCode, gen, ext>>

\* generate_reply for the drawn template: the AttributeError of a template
\* that is no str goes to the handler of _handle_hotkey; otherwise the
\* substituted text is the reply.
Generated(rec, template) ==
    IF template = NotAStr
    THEN [rec EXCEPT !.pc = "except", !.ran = <<>>]
    ELSE [rec EXCEPT !.reply = Substitute(template, rec.contact), !.ran = <<>>]

\* "if reply is not None:" in place of "if reply:".
GenerateReplySendsEmpty(i) ==
    /\ workers[i].pc = "generate"
    /\ LET replies == Config(workers[i].hotkey).replies
       IN  IF replies = <<>>
           THEN workers' = [workers EXCEPT ![i].pc = "finally", ![i].ran = <<>>]
           ELSE \E k \in 1..Len(replies) :
                  LET g == Generated(workers[i], replies[k])
                  IN  workers' = [workers EXCEPT ![i] =
                         IF g.pc = "except" THEN g
                         ELSE [g EXCEPT !.pc = IF g.reply # NoneStr
                                               THEN "s_read" ELSE "finally"]]
    /\ UNCHANGED <<mainPc, wechat_hwnd, current_contact_name, hotkey_lock, clipboard,
                   msgQueue, loopPc, loopMsg, id_to_hotkey, nSpawned, raw, parsed, registered, exitCode, gen, ext>>

\* reply = generate_reply(hotkey_data.get("replies", []), contact_info) with
\* its random.choice, and the test "if reply:" that decides on send_message.
GenerateReply(i) ==
    /\ workers[i].pc = "generate"
    /\ LET replies == Config(workers[i].hotkey).replies
       IN  IF replies = <<>>
           THEN workers' = [workers EXCEPT ![i].pc = "finally", ![i].ran = <<>>]
           ELSE \E k \in 1..Len(replies) :
                  LET g == Generated(workers[i], replies[k])
                  IN  workers' = [workers EXCEPT ![i] =
                         IF g.pc = "except" THEN g
                         ELSE [g EXCEPT !.pc = IF Truthy(g.reply)
                                               THEN "s_read" ELSE "finally"]]
    /\ UNCHANGED <<mainPc, wechat_hwnd, current_contact_name, hotkey_lock, clipboard,
                   msgQueue, loopPc, loopMsg, id_to_hotkey, nSpawned, raw, parsed, registered, exitCode, gen, ext>>

\* send_message is entered and reads the clipboard: old_clipboard stays ""
\* when pyperclip.paste() raises.
SendRead(i) ==
    /\ workers[i].pc = "s_read"
    /\ \E ok \in BOOLEAN :
         workers' = [workers EXCEPT ![i] =
            [@ EXCEPT !.pc = "s_write",
                      !.sends = @ + 1,
                      !.sent = workers[i].reply,
                      !.clipAtCall = clipboard,
                      !.old_clipboard = IF ok THEN clipboard ELSE <<>>,
                      !.sfailed = IF ok THEN {} ELSE {"read"}]]
    /\ UNCHANGED <<mainPc, wechat_hwnd, current_contact_name, hotkey_lock, clipboard,
                   msgQueue, loopPc, loopMsg, id_to_hotkey, nSpawned, raw, parsed, registered, exitCode, gen, ext>>

\* pyperclip.copy(message): a raise (the clipboard is left as it was) goes
\* to the outer handler, which returns False.
SendWrite(i) ==
    /\ workers[i].pc = "s_write"
    /\ \E ok \in BOOLEAN :
         IF ok
         THEN /\ clipboard' = workers[i].sent
              /\ workers' = [workers EXCEPT ![i].pc = "s_keys"]
         ELSE /\ UNCHANGED clipboard
              /\ workers' = [workers EXCEPT ![i].pc = "finally", ![i].sres = "false",
                                            ![i].sfailed = @ \cup {"write"}]
    /\ UNCHANGED <<mainPc, wechat_hwnd, current_contact_name, hotkey_lock, msgQueue,
                   loopPc, loopMsg, id_to_hotkey, nSpawned, raw, parsed, registered, exitCode, gen, ext>>


\* The keybd_event calls of send_message, in the order of the code.
KeyEvents == <<"ctrl_down", "v_down", "v_up", "ctrl_up">>

\* The key events worker i's send_message has emitted so far.
Emitted(i) == SubSeq(KeyEvents, 1, workers[i].keys)

\* The outer handler of send_message is missing: a raise of keybd_event
\* leaves send_message.
SendKeyUncaught(i) ==
    /\ workers[i].pc = "s_keys"
    /\ \E ok \in BOOLEAN :
         workers' = [workers EXCEPT ![i] =
            IF ok
            THEN [@ EXCEPT !.keys = @ + 1,
                           !.pc = IF workers[i].keys + 1 = 4 THEN "s_restore" ELSE "s_keys"]
            ELSE [@ EXCEPT !.pc = "except", !.sres = "raised",
                           !.sfailed = @ \cup {"key"}]]
    /\ UNCHANGED <<mainPc, wechat_hwnd, current_contact_name, hotkey_lock, clipboard,
                   msgQueue, loopPc, loopMsg, id_to_hotkey, nSpawned, raw, parsed, registered, exitCode, gen, ext>>

\* One of the four keybd_event calls (Ctrl down, V down, V up, Ctrl up): a
\* raise goes to the outer handler, which returns False.
SendKey(i) ==
    /\ workers[i].pc = "s_keys"
    /\ \E ok \in BOOLEAN :
         workers' = [workers EXCEPT ![i] =
            IF ok
            THEN [@ EXCEPT !.keys = @ + 1,
                           !.pc = IF workers[i].keys + 1 = 4 THEN "s_restore" ELSE "s_keys"]
            ELSE [@ EXCEPT !.pc = "finally", !.sres = "false",
                           !.sfailed = @ \cup {"key"}]]
    /\ UNCHANGED <<mainPc, wechat_hwnd, current_contact_name, hotkey_lock, clipboard,
                   msgQueue, loopPc, loopMsg, id_to_hotkey, nSpawned, raw, parsed, registered, exitCode, gen, ext>>

\* pyperclip.copy(old_clipboard), its raise passed over; return True.  The
\* worker then prints its report.
SendRestore(i) ==
    /\ workers[i].pc = "s_restore"
    /\ \E ok \in BOOLEAN :
         /\ clipboard' = IF ok THEN workers[i].old_clipboard ELSE clipboard
         /\ workers' = [workers EXCEPT ![i].pc = "finally", ![i].sres = "true",
                           ![i].sfailed = IF ok THEN @ ELSE @ \cup {"restore"}]
    /\ UNCHANGED <<mainPc, wechat_hwnd, current_contact_name, hotkey_lock, msgQueue,
                   loopPc, loopMsg, id_to_hotkey, nSpawned, raw, parsed, registered, exitCode, gen, ext>>

\* The release sits at the end of the try block, not in a finally: the
\* handler ends the thread with the lock held.
HandleExceptNoRelease(i) ==
    /\ workers[i].pc = "except"
    /\ workers' = [workers EXCEPT ![i] = Ended(workers[i], "excepted")]
    /\ UNCHANGED <<mainPc, wechat_hwnd, current_contact_name, hotkey_lock, clipboard,
                   msgQueue, loopPc, loopMsg, id_to_hotkey, nSpawned, raw, parsed, registered, exitCode, gen, ext>>

\* except Exception as e: the error is printed.
HandleExcept(i) ==
    /\ workers[i].pc = "except"
    /\ workers' = [workers EXCEPT ![i].pc = "finally", ![i].outcome = "excepted"]
    /\ UNCHANGED <<mainPc, wechat_hwnd, current_contact_name, hotkey_lock, clipboard,
                   msgQueue, loopPc, loopMsg, id_to_hotkey, nSpawned, raw, parsed, registered, exitCode, gen, ext>>

\* finally: hotkey_lock.release(), and the thread ends.  The worker is
\* here after the report that follows send_message, after "if reply:"
\* found nothing to send, and after the handler.
HandleFinally(i) ==
    /\ workers[i].pc = "finally"
    /\ hotkey_lock' = FALSE
    /\ workers' = [workers EXCEPT ![i] =
                     Ended(workers[i], IF workers[i].outcome = "excepted"
                                       THEN "excepted" ELSE "returned")]
    /\ UNCHANGED <<mainPc, wechat_hwnd, current_contact_name, clipboard, msgQueue,
                   loopPc, loopMsg, id_to_hotkey, nSpawned, raw, parsed, registered, exitCode, gen, ext>>

---------------------------------------------------------------------------
(* The program *)

Next ==
    \/ StartProgram
    \/ RegisterHotkeys
    \/ PressHotkey
    \/ GetMessage
    \/ OnHotkey
    \/ ManualEntry
    \/ LoopQuit
    \/ Interrupt
    \/ StopHotkey
    \/ \E i \in Workers : HandleAcquire(i)
    \/ \E i \in Workers : HandleLookup(i)
    \/ \E i \in Workers : OcrCapture(i)
    \/ \E i \in Workers : TryRapidocr(i)
    \/ \E i \in Workers : TryTesseract(i)
    \/ \E i \in Workers : GcCheckCache(i)
    \/ \E i \in Workers : GcReadCache(i)
    \/ \E i \in Workers : GenerateReply(i)
    \/ \E i \in Workers : SendRead(i)
    \/ \E i \in Workers : SendWrite(i)
    \/ \E i \in Workers : SendKey(i)
    \/ \E i \in Workers : SendRestore(i)
    \/ \E i \in Workers : HandleExcept(i)
    \/ \E i \in Workers : HandleFinally(i)

Spec == Init /\ [][Next]_vars

---------------------------------------------------------------------------
(* The name parsers on their own *)

\* Two ideographs, two Latin letters and the space.
ParseAlphabet == {"li", "lei", "J", "S", " "}

\* Every raw name of at most MaxLen characters.
RawNames == UNION {[1..n -> ParseAlphabet] : n \in 0..MaxLen}

InitParse ==
    /\ ProgramInit
    /\ raw \in RawNames
    /\ parsed = NotParsed
    /\ gen = NotGenerated
    /\ ext = NotExtracted

\* main.parse_name(raw)
CallParseName ==
    /\ "main" \notin parsed.called
    /\ parsed' = [parsed EXCEPT !.called = @ \cup {"main"}, !.main = parse_name(raw)]
    /\ UNCHANGED <<mainPc, wechat_hwnd, current_contact_name, hotkey_lock, clipboard,
                   msgQueue, loopPc, loopMsg, id_to_hotkey, nSpawned, workers, raw, registered, exitCode, gen, ext>>

\* WeChatHelper._parse_name(raw)
CallHelperParseName ==
    /\ "helper" \notin parsed.called
    /\ parsed' = [parsed EXCEPT !.called = @ \cup {"helper"}, !.helper = _parse_name(raw)]
    /\ UNCHANGED <<mainPc, wechat_hwnd, current_contact_name, hotkey_lock, clipboard,
                   msgQueue, loopPc, loopMsg, id_to_hotkey, nSpawned, workers, raw, registered, exitCode, gen, ext>>

NextParse == CallParseName \/ CallHelperParseName

SpecParse == InitParse /\ [][NextParse]_vars

---------------------------------------------------------------------------
(* generate_reply on its own *)

\* What templates are made of: the three placeholders, and two pieces of
\* text with a brace in them that close around a placeholder.
TemplatePieces ==
    { PH_name, PH_surname, PH_given_name,
      <<"H">>, <<"{", "s", "u", "r">>, <<"n", "a", "m", "e", "}">> }

RECURSIVE Flatten(_)
Flatten(pieces) ==
    IF pieces = <<>> THEN <<>> ELSE Head(pieces) \o Flatten(Tail(pieces))

\* Every template of at most MaxPieces pieces.
Templates ==
    { Flatten(p) : p \in UNION {[1..n -> TemplatePieces] : n \in 0..MaxPieces} }

\* The replies lists: none, one template, or a template and a plain text.
RepliesLists ==
    {<<>>} \cup { <<t>> : t \in Templates } \cup { <<t, <<"H">> >> : t \in Templates }

\* Values of a contact's fields: a letter, a word, a placeholder's text.
FieldValues == { <<"w">>, <<"n", "a", "m", "e">>, PH_surname }

Contacts ==
    {NoContact} \cup
    { ContactInfo(f, s, g) : f \in FieldValues, s \in FieldValues, g \in FieldValues }

InitGenerate ==
    /\ ProgramInit
    /\ raw = <<>>
    /\ parsed = NotParsed
    /\ ext = NotExtracted
    /\ \E r \in RepliesLists, c \in Contacts :
         gen = [NotGenerated EXCEPT !.replies = r, !.contact_info = c]

\* "template.replace(...)" done for {name} and {surname} only.
generate_reply_two_passes(replies, contact_info) ==
    IF replies = <<>>
    THEN {NoneStr}
    ELSE { Replace(Replace(replies[k], PH_name,
                           IF contact_info # NoContact
                           THEN contact_info.full_name ELSE <<>>),
                   PH_surname,
                   IF contact_info # NoContact
                   THEN contact_info.surname ELSE <<>>) : k \in 1..Len(replies) }

\* generate_reply(replies, contact_info): what it may return, one value for
\* each template random.choice may draw; None for an empty list.
generate_reply(replies, contact_info) ==
    IF replies = <<>>
    THEN {NoneStr}
    ELSE { Substitute(replies[k], contact_info) : k \in 1..Len(replies) }

CallGenerateReply ==
    /\ ~gen.called
    /\ \E r \in generate_reply(gen.replies, gen.contact_info) :
         gen' = [gen EXCEPT !.called = TRUE, !.result = r]
    /\ UNCHANGED <<mainPc, wechat_hwnd, current_contact_name, hotkey_lock, clipboard,
                   msgQueue, loopPc, loopMsg, id_to_hotkey, nSpawned, workers,
                   raw, parsed, registered, exitCode, ext>>

NextGenerate == CallGenerateReply

SpecGenerate == InitGenerate /\ [][NextGenerate]_vars


---------------------------------------------------------------------------
(* Name extraction on its own *)

\* What recognised lines are made of: a name of two ideographs, three
\* ideographs, a refused UI string, one ideograph, a Latin letter, a space.
LinePieces ==
    { <<"wang", "fang">>, <<"li", "lei", "shu">>, <<"wei", "xin">>,
      <<"li">>, <<"a">>, <<" ">> }

\* Every line of at most MaxPieces pieces.
Lines ==
    { Flatten(p) : p \in UNION {[1..n -> LinePieces] : n \in 0..MaxPieces} }

\* The results of the recogniser: no line, one line, or a line followed by
\* a line with a name.
LineLists ==
    {<<>>} \cup { <<l>> : l \in Lines } \cup { <<l, <<"li", "lei">> >> : l \in Lines }

InitExtract ==
    /\ ProgramInit
    /\ raw = <<>>
    /\ parsed = NotParsed
    /\ gen = NotGenerated
    /\ \E r \in LineLists : ext = [NotExtracted EXCEPT !.lines = r]

\* get_current_contact over the lines of the recogniser: the name
\* _try_rapidocr finds in them and, when there is one, its store in
\* current_contact_name.
CallRecognise ==
    /\ ~ext.called
    /\ LET name == FirstNameOfLines(ext.lines)
       IN  ext' = [ext EXCEPT !.called = TRUE,
                              !.name = name,
                              !.cache = IF Truthy(name) THEN name ELSE @]
    /\ UNCHANGED <<mainPc, wechat_hwnd, current_contact_name, hotkey_lock, clipboard,
                   msgQueue, loopPc, loopMsg, id_to_hotkey, nSpawned, workers,
                   raw, parsed, registered, exitCode, gen>>

NextExtract == CallRecognise

SpecExtract == InitExtract /\ [][NextExtract]_vars

---------------------------------------------------------------------------
(* Properties *)

\* C1: in every reachable state at most one worker is inside the handling
\* pipeline, between its successful non-blocking acquire of hotkey_lock and
\* its release.
C1_SingleFlight == Cardinality({i \in Workers : InPipeline(i)}) <= 1

\* A worker is inside the pipeline while another trigger was turned away.
C1_Witness ==
    \E i, j \in Workers :
        i # j /\ InPipeline(i) /\ workers[j].outcome = "dropped"

\* C2 as stated: of two triggers A and B where B arrived (on_hotkey ran for
\* it) before A's handling completed, exactly one runs the pipeline and the
\* other is dropped.  It is stated here for the arrivals that find A inside
\* the pipeline, where A's handling has begun on any reading.
C2_ArrivalDecides ==
    \A b \in Workers : \A a \in workers[b].inFlight :
        (workers[a].pc = "done" /\ workers[b].pc = "done")
            => ((workers[a].outcome = "dropped") # (workers[b].outcome = "dropped"))

\* C2 amended: a trigger whose worker attempts the non-blocking acquire
\* while another worker holds the guard is dropped with the notice at once:
\* its thread ends there, it is neither queued nor retried and runs no
\* recognition, generation or injection; and only such a trigger is dropped.
C2_AcquireDecides ==
    \A b \in Workers :
        /\ workers[b].busyAtAcquire
              => (workers[b].pc = "done" /\ workers[b].outcome = "dropped"
                  /\ workers[b].sends = 0)
        /\ workers[b].outcome = "dropped" => workers[b].busyAtAcquire

\* B arrived during A's handling, met the held guard and was dropped; A is
\* still in the pipeline.
C2_Witness ==
    \E a, b \in Workers :
        /\ a \in workers[b].inFlight
        /\ InPipeline(a)
        /\ workers[b].pc = "done" /\ workers[b].outcome = "dropped"

\* C3: every worker that acquired the guard releases it when its handling
\* ends, on every path; so whenever no worker is inside the pipeline the
\* guard is free and the acquire of the next trigger succeeds.
C3_GuardReleased ==
    (\A i \in Workers : ~InPipeline(i))
        => /\ ~hotkey_lock
           /\ \A j \in Workers :
                workers[j].pc = "start"
                    => ENABLED (HandleAcquire(j) /\ workers'[j].pc = "lookup")

\* A worker ended through the exception handler and a later trigger was
\* accepted.
C3_Witness ==
    \E i, j \in Workers :
        /\ workers[i].pc = "done" /\ workers[i].outcome = "excepted"
        /\ i < j /\ InPipeline(j)

\* C4: the callback only starts a worker and returns, so the reception loop
\* never waits on a worker: whatever the workers are doing, a callback in
\* progress can return and a queued hotkey event can be received.
C4_LoopNeverWaits ==
    /\ loopPc = "callback" => ENABLED OnHotkey
    /\ (loopPc = "getmsg" /\ msgQueue # <<>>) => ENABLED GetMessage

\* A worker sits in a capture, provider or key-event call while a trigger
\* that came later has been dispatched to its own worker.
C4_Witness ==
    \E i, j \in Workers :
        /\ workers[i].pc \in {"capture", "rapidocr", "tesseract", "s_keys"}
        /\ i < j /\ workers[j].pc = "start" /\ i \in workers[j].inFlight

\* C5 as stated: after any call of send_message, whatever its result and
\* whichever step failed, the clipboard holds what it held before the call.
C5_ClipboardRoundTrip ==
    \A i \in Workers :
        (workers[i].pc = "finally" /\ workers[i].sends = 1)
            => clipboard = workers[i].clipAtCall

\* C6: send_message never raises; a raise of the clipboard write or of a
\* key event makes it return False, and it returns True only when the write
\* and all four key events went through.
C6_SendNeverRaises ==
    \A i \in Workers :
        /\ workers[i].sres # "raised"
        /\ (workers[i].pc = "finally" /\ workers[i].sends = 1)
              => /\ workers[i].sres \in {"true", "false"}
                 /\ workers[i].sres = "false"
                       <=> workers[i].sfailed \cap {"write", "key"} # {}
                 /\ workers[i].sres = "true" => workers[i].keys = 4

\* send_message returned False after a key event raised.
C6_Witness ==
    \E i \in Workers :
        /\ workers[i].pc = "finally" /\ workers[i].sends = 1
        /\ workers[i].sres = "false" /\ "key" \in workers[i].sfailed

\* C7: when recognition yields no candidate, get_current_contact returns
\* the contact parsed from the cached name if there is one, and no contact
\* otherwise; no step of a failed recognition changes the cache.
C7_FallbackToCache ==
    [][\A i \in Workers :
         /\ (workers[i].pc \in {"fallback", "readcache"} /\ workers'[i].pc = "generate")
               => /\ current_contact_name' = current_contact_name
                  /\ workers'[i].contact =
                         IF Truthy(current_contact_name)
                         THEN _parse_name(current_contact_name) ELSE NoContact
                  /\ workers'[i].recog =
                         IF Truthy(current_contact_name) THEN "cached" ELSE "unknown"
         /\ (workers[i].pc \in {"capture", "rapidocr", "tesseract", "fallback"}
             /\ workers'[i] # workers[i] /\ workers'[i].recog # "recognized")
               => current_contact_name' = current_contact_name
      ]_vars

\* After a capture error the cached name was parsed and returned.
C7_Witness ==
    \E i \in Workers :
        /\ workers[i].pc = "generate" /\ workers[i].recog = "cached"
        /\ "capture" \in workers[i].failed
        /\ workers[i].contact = ContactInfo(<<"wang", "fang">>, <<"wang">>, <<"fang">>)
        /\ current_contact_name = <<"wang", "fang">>

\* C8: get_current_contact never raises to its caller; after a capture
\* error, or after both providers raised, it returns the contact of the
\* cached name or no contact.
C8_RecognizeNeverRaises ==
    \A i \in Workers :
        /\ workers[i].recog # "raised"
        /\ (workers[i].recog # "none"
            /\ ("capture" \in workers[i].failed
                \/ {"rapidocr", "tesseract"} \subseteq workers[i].failed))
              => /\ workers[i].recog \in {"cached", "unknown"}
                 /\ workers[i].recog = "unknown" => workers[i].contact = NoContact

\* Both providers raised, nothing was cached, and the call returned no
\* contact.
C8_Witness ==
    \E i \in Workers :
        /\ workers[i].recog = "unknown"
        /\ {"rapidocr", "tesseract"} \subseteq workers[i].failed
        /\ workers[i].pc = "generate"

\* C9 as stated: whenever generate_reply returns a string, whatever the
\* substituted text, the worker calls send_message once with it; when it
\* returns nothing, send_message is not called.
C9_SendsEveryReply ==
    \A i \in Workers :
        workers[i].pc = "finally"
            => /\ workers[i].reply # NoneStr
                     => (workers[i].sends = 1 /\ workers[i].sent = workers[i].reply)
               /\ workers[i].reply = NoneStr => workers[i].sends = 0

\* C9 amended: whenever generate_reply returns a non-empty string the
\* worker calls send_message exactly once, with that string; when it
\* returns nothing or the empty string, send_message is not called.
C9_SendsNonEmptyReply ==
    \A i \in Workers :
        /\ workers[i].sends <= 1
        /\ workers[i].sends = 1 => workers[i].sent = workers[i].reply
        /\ workers[i].pc = "finally"
              => /\ Truthy(workers[i].reply) => workers[i].sends = 1
                 /\ ~Truthy(workers[i].reply) => workers[i].sends = 0

\* The template came out empty for an unknown contact and nothing was sent.
C9_Witness ==
    \E i \in Workers :
        /\ workers[i].pc = "finally"
        /\ workers[i].contact = NoContact
        /\ workers[i].reply = <<>> /\ workers[i].sends = 0

\* The whitespace-delimited tokens of s, read off its positions.
TokenStarts(s) ==
    {i \in 1..Len(s) : ~IsSpace(s[i]) /\ (i = 1 \/ IsSpace(s[i - 1]))}

TokenAt(s, i) ==
    SubSeq(s, i, CHOOSE j \in i..Len(s) :
                    /\ \A k \in i..j : ~IsSpace(s[k])
                    /\ (j = Len(s) \/ IsSpace(s[j + 1])))

NthToken(s, n) ==
    TokenAt(s, CHOOSE i \in TokenStarts(s) :
                  Cardinality({j \in TokenStarts(s) : j < i}) = n - 1)

\* Tokens n..m of s joined by single spaces.
RECURSIVE TokensJoined(_, _, _)
TokensJoined(s, n, m) ==
    IF n > m THEN <<>>
    ELSE IF n = m THEN NthToken(s, n)
    ELSE NthToken(s, n) \o <<" ">> \o TokensJoined(s, n + 1, m)

\* The Western reading of s: <<last token, the others joined>>.
WesternName(s) ==
    LET n == Cardinality(TokenStarts(s))
    IN  IF n = 0 THEN <<<<>>, <<>>>>
        ELSE <<NthToken(s, n), TokensJoined(s, 1, n - 1)>>

\* Both parsers have run and returned the pair p.
BothReturn(p) ==
    /\ "main" \in parsed.called => parsed.main = p
    /\ "helper" \in parsed.called
          => <<parsed.helper.surname, parsed.helper.given_name>> = p
    /\ parsed.main[1] # IndexError
    /\ parsed.helper.surname # IndexError

\* C10 as stated: with an ideograph in raw the surname is the first
\* character of raw and the given name the remaining characters; otherwise
\* the Western reading; no raise; both parsers agree.
C10_ParseOfRaw ==
    BothReturn(IF HasCJK(raw)
               THEN <<SubSeq(raw, 1, 1), SubSeq(raw, 2, Len(raw))>>
               ELSE WesternName(raw))

\* C10 amended: the same with the first and the remaining characters taken
\* from raw with its leading and trailing whitespace removed.
C10_ParseOfStripped ==
    BothReturn(IF HasCJK(raw)
               THEN <<SubSeq(Strip(raw), 1, 1), SubSeq(Strip(raw), 2, Len(Strip(raw)))>>
               ELSE WesternName(raw))

\* Both parsers read a padded ideograph name.
C10_Witness ==
    /\ raw = <<" ", "li", "lei">>
    /\ parsed.called = {"main", "helper"}
    /\ parsed.main = << <<"li">>, <<"lei">> >>
    /\ parsed.helper.given_name = <<"lei">>

\* The template with each placeholder occurrence of the template itself
\* exchanged for the contact's field (or for nothing without a contact), in
\* one pass from left to right; text put in is not looked at again.
BeginsWith(s, p) == Len(s) >= Len(p) /\ SubSeq(s, 1, Len(p)) = p

FieldOf(c, field) ==
    IF c = NoContact THEN <<>>
    ELSE IF field = "full_name" THEN c.full_name
    ELSE IF field = "surname" THEN c.surname
    ELSE c.given_name

RECURSIVE InPlace(_, _)
InPlace(t, c) ==
    IF t = <<>> THEN <<>>
    ELSE IF BeginsWith(t, PH_name)
    THEN FieldOf(c, "full_name") \o InPlace(SubSeq(t, Len(PH_name) + 1, Len(t)), c)
    ELSE IF BeginsWith(t, PH_surname)
    THEN FieldOf(c, "surname") \o InPlace(SubSeq(t, Len(PH_surname) + 1, Len(t)), c)
    ELSE IF BeginsWith(t, PH_given_name)
    THEN FieldOf(c, "given_name")
         \o InPlace(SubSeq(t, Len(PH_given_name) + 1, Len(t)), c)
    ELSE <<Head(t)>> \o InPlace(Tail(t), c)

HasBrace(s) == \E k \in 1..Len(s) : s[k] \in {"{", "}"}

\* The template's only braces are those of its placeholders.
BracesOnlyInPlaceholders(t) == ~HasBrace(InPlace(t, NoContact))

\* No field of the contact has a brace in it.
BraceFreeFields(c) ==
    c # NoContact =>
        ~HasBrace(c.full_name) /\ ~HasBrace(c.surname) /\ ~HasBrace(c.given_name)

\* C11 as stated: generate_reply returns None exactly for an empty replies
\* list, and otherwise one of the templates in which every occurrence of
\* {name}, {surname} and {given_name} stands replaced by the contact's full
\* name, surname and given name (by nothing without a contact), whatever
\* strings the fields are.
C11_EveryOccurrenceReplaced ==
    gen.called =>
        /\ (gen.result = NoneStr) <=> (gen.replies = <<>>)
        /\ gen.replies # <<>> =>
             \E k \in 1..Len(gen.replies) :
                 gen.result = InPlace(gen.replies[k], gen.contact_info)

\* C11, amended: the same, for contacts whose fields have no brace in them
\* and templates whose only braces are those of their placeholders; the
\* three replacements are made one after another on the whole text, so a
\* placeholder brought in by a field or closed around a replacement is
\* replaced too.
C11_BraceFreeReplaced ==
    gen.called =>
        /\ (gen.result = NoneStr) <=> (gen.replies = <<>>)
        /\ ( /\ gen.replies # <<>>
             /\ BraceFreeFields(gen.contact_info)
             /\ \A k \in 1..Len(gen.replies) :
                    BracesOnlyInPlaceholders(gen.replies[k]) ) =>
             \E k \in 1..Len(gen.replies) :
                 gen.result = InPlace(gen.replies[k], gen.contact_info)

\* A template with a placeholder at its start, its middle and its end came
\* back with all three replaced.
C11_Witness ==
    /\ gen.called
    /\ gen.replies = << PH_surname \o PH_name \o PH_given_name >>
    /\ gen.contact_info = ContactInfo(<<"n", "a", "m", "e">>, <<"w">>, <<"w">>)
    /\ gen.result = <<"w", "n", "a", "m", "e", "w">>

\* C12: name extraction never returns one of the refused UI strings, also
\* when the string is a run of 2 to 8 ideographs, and so a recognition never
\* stores one in current_contact_name.
C12_DenylistNeverReturned ==
    ext.called => ext.name \notin Denylist /\ ext.cache \notin Denylist

\* A line that is a refused string of two ideographs was passed over and
\* the name of the next line returned and stored.
C12_Witness ==
    /\ ext.called
    /\ ext.lines = << <<"wei", "xin">>, <<"li", "lei">> >>
    /\ ext.name = <<"li", "lei">>
    /\ ext.cache = <<"li", "lei">>

\* C13 as stated: when no target window is found at startup the process
\* ends with a non-zero exit code, no hotkey is registered, and neither the
\* hotkey message loop nor the wait for the control hotkeys is entered.
C13_FatalInitExit ==
    mainPc = "returned"
        => /\ exitCode > 0
           /\ registered = {} /\ id_to_hotkey = <<>>
           /\ loopPc = "off"
           /\ nSpawned = 0

\* C14 as stated: whenever the program has ended by the stop hotkey or by
\* an interrupt, every combo that was registered has been unregistered.
C14_TeardownUnregisters ==
    mainPc = "stopped" => registered = {}

\* What a manual entry of the line does: the trimmed line is stored when it
\* is not empty and the cache kept otherwise; the lock and the workers are
\* left as they are.
ManualEntryEffect(line) ==
    /\ current_contact_name' =
           IF Strip(line) # <<>> THEN Strip(line) ELSE current_contact_name
    /\ hotkey_lock' = hotkey_lock
    /\ workers' = workers

\* C15: a manual entry with a line that is not empty after trimming sets
\* current_contact_name to that (trimmed) input and one with an empty line
\* leaves it unchanged; it never acquires, waits for or changes hotkey_lock,
\* so in every state of the running program, a worker inside the pipeline
\* or not, it can run to completion, and it changes nothing else of the
\* lock and the workers.
C15_ManualEntryFrame ==
    /\ [](mainPc = "running" => ENABLED ManualEntry)
    /\ [][\A line \in ManualLines :
             ManualEntryLine(line) => ManualEntryEffect(line)]_vars

\* A worker that recognised a name is still inside the pipeline, holding
\* the lock, and the name typed in since then is in the cache.
C15_Witness ==
    \E i \in Workers :
        /\ InPipeline(i) /\ hotkey_lock
        /\ workers[i].recog = "recognized"
        /\ current_contact_name = <<"J", " ", "S">>

\* C16: current_contact_name is written by two steps only, and each write
\* takes effect whole, so the cache holds what the latest writer stored: a
\* successful recognition stores the name it returns, a manual entry of a
\* line that is not blank stores the trimmed line, and no other step of the
\* program changes the cache.
C16_LastWriterWins ==
    [][/\ \A i \in Workers :
            (workers[i].recog # "recognized" /\ workers'[i].recog = "recognized")
                => current_contact_name' = workers'[i].contact.full_name
       /\ current_contact_name' # current_contact_name
            => \/ \E i \in Workers :
                    /\ workers[i].pc \in {"rapidocr", "tesseract"}
                    /\ workers'[i].recog = "recognized"
                    /\ current_contact_name' = workers'[i].contact.full_name
               \/ /\ workers' = workers
                  /\ \E line \in ManualLines :
                       Strip(line) # <<>> /\ current_contact_name' = Strip(line)
      ]_vars

\* After an earlier trigger was handled, the recognition of a later one has
\* just stored the name it returns: the cache holds that name.
C16_Witness ==
    \E i, j \in Workers :
        /\ i < j
        /\ workers[i].pc = "done" /\ workers[i].outcome = "returned"
        /\ workers[j].pc = "generate" /\ workers[j].recog = "recognized"
        /\ workers[j].contact.full_name = <<"wang", "fang">>
        /\ current_contact_name = <<"wang", "fang">>

\* The line without its spaces, and its maximal runs of ideographs as pairs
\* of positions.
NoSpaces(line) == SelectSeq(line, LAMBDA c : c # " ")

MaximalRuns(s) ==
    { r \in (1..Len(s)) \X (1..Len(s)) :
        /\ r[1] <= r[2]
        /\ \A k \in r[1]..r[2] : IsCJK(s[k])
        /\ (r[1] = 1 \/ ~IsCJK(s[r[1] - 1]))
        /\ (r[2] = Len(s) \/ ~IsCJK(s[r[2] + 1])) }

\* The runs of the line that may be a name: 2 to 8 ideographs, not a
\* refused UI string.
Candidates(line) ==
    { r \in MaximalRuns(NoSpaces(line)) :
        /\ 2 <= r[2] - r[1] + 1 /\ r[2] - r[1] + 1 <= 8
        /\ SubSeq(NoSpaces(line), r[1], r[2]) \notin Denylist }

LinesWithCandidate(lines) == { k \in 1..Len(lines) : Candidates(lines[k]) # {} }

FirstLineWithCandidate(lines) ==
    CHOOSE k \in LinesWithCandidate(lines) :
        \A m \in LinesWithCandidate(lines) : k <= m

\* C17 as stated: extraction takes the first line with a candidate and
\* returns from it the longest run of 2 to 8 ideographs that is not a
\* refused string; it returns nothing exactly when no line has such a run.
C17_LongestRun ==
    ext.called =>
        IF LinesWithCandidate(ext.lines) = {}
        THEN ext.name = NoneStr
        ELSE LET line == ext.lines[FirstLineWithCandidate(ext.lines)]
             IN  \E r \in Candidates(line) :
                    /\ ext.name = SubSeq(NoSpaces(line), r[1], r[2])
                    /\ \A q \in Candidates(line) : q[2] - q[1] <= r[2] - r[1]

\* C17, amended: extraction takes the first line with a candidate and
\* returns from it, spaces removed, the first (leftmost) maximal run of 2 to
\* 8 ideographs that is not a refused string, whether or not a longer one
\* follows; it returns nothing exactly when no line has such a run.
C17_FirstRun ==
    ext.called =>
        IF LinesWithCandidate(ext.lines) = {}
        THEN ext.name = NoneStr
        ELSE LET line == ext.lines[FirstLineWithCandidate(ext.lines)]
             IN  \E r \in Candidates(line) :
                    /\ ext.name = SubSeq(NoSpaces(line), r[1], r[2])
                    /\ \A q \in Candidates(line) : r[1] <= q[1]

\* A line with a name of two ideographs and, after a Latin letter, one of
\* three: the first was returned.
C17_Witness ==
    /\ ext.called
    /\ ext.lines = << <<"wang", "fang", "a", "li", "lei", "shu">> >>
    /\ ext.name = <<"wang", "fang">>

\* C18: within one recognition the first provider (RapidOCR) is always the
\* first called; the second (Tesseract) is called if and only if the first
\* raised or gave no valid name; a valid name of the first provider is the
\* one returned; and a provider that raises never ends the recognition,
\* which goes on to the next provider or to the cache.
C18_ProviderChain ==
    \A i \in Workers :
        LET r == workers[i].ran
        IN  /\ Len(r) <= 2
            /\ Len(r) >= 1 => r[1].provider = "rapidocr"
            /\ Len(r) = 2 => (r[2].provider = "tesseract" /\ ~Truthy(r[1].name))
            /\ (Len(r) = 1 /\ ~Truthy(r[1].name)) => workers[i].pc = "tesseract"
            /\ (Len(r) >= 1 /\ Truthy(r[1].name))
                  => /\ workers[i].recog = "recognized"
                     /\ workers[i].contact = _parse_name(r[1].name)
            /\ workers[i].recog # "raised"
            /\ (workers[i].failed \cap {"rapidocr", "tesseract"} # {}
                /\ workers[i].recog = "none")
                  => workers[i].pc \in {"tesseract", "fallback", "readcache"}

\* The first provider raised, the second was called and its name returned.
C18_Witness ==
    \E i \in Workers :
        /\ workers[i].pc = "generate" /\ workers[i].recog = "recognized"
        /\ "rapidocr" \in workers[i].failed
        /\ Len(workers[i].ran) = 2
        /\ workers[i].ran[2] = [provider |-> "tesseract", name |-> <<"wang", "fang">>]

\* C19 as stated: within one send_message the key events are emitted in
\* the order Ctrl down, V down, V up, Ctrl up, each at most once, and only
\* while the clipboard holds the text (after the write, before the
\* restore); and whenever Ctrl down was emitted, Ctrl up has been emitted
\* by the time send_message returns.
C19_PasteKeysBalanced ==
    \A i \in Workers :
        /\ workers[i].keys <= Len(KeyEvents)
        /\ workers[i].pc = "s_keys"
              => (clipboard = workers[i].sent /\ "write" \notin workers[i].sfailed)
        /\ workers[i].keys > 0
              => workers[i].pc \in {"s_keys", "s_restore", "finally"}
        /\ (workers[i].pc = "finally" /\ workers[i].sends = 1
            /\ "ctrl_down" \in {Emitted(i)[k] : k \in 1..Len(Emitted(i))})
              => "ctrl_up" \in {Emitted(i)[k] : k \in 1..Len(Emitted(i))}

====
